---- MODULE Spec2Model ----
(***************************************************************************)
(* Model of matrix_operations.py (Matrix Operations App, CLI).             *)
(*                                                                         *)
(* A float64 value is modelled as an exact rational <<n, d>> in lowest     *)
(* terms (d > 0).  NumPy's elementwise +, -, dot and linalg.inv are        *)
(* library calls; they are modelled by their documented results computed   *)
(* in exact arithmetic (IEEE rounding of the library is not modelled).     *)
(* The "%.8g" format of save_matrix is modelled as what it does: rounding  *)
(* to 8 significant decimal digits.                                        *)
(*                                                                         *)
(* A numpy 2-D array is the record [rows, cols, data] with data a sequence *)
(* of rows; None is the record NoneVal.                                    *)
(***************************************************************************)
EXTENDS Integers, Sequences, FiniteSets, TLC

VARIABLES
    pc,       \* control position (which input() call the program waits at)
    choice,   \* main(): the menu choice of the current iteration
    name,     \* choose_matrix/input_matrix: the matrix being supplied
    A,        \* main(): first operand (NoneVal when unbound)
    B,        \* main(): second operand (NoneVal when unbound)
    res,      \* main(): result of the operation (res / inv)
    rows,     \* input_matrix(): declared rows
    cols,     \* input_matrix(): declared cols
    mat,      \* input_matrix(): the matrix being filled row by row
    r,        \* input_matrix(): number of rows already filled
    nums,     \* input_matrix(): the numbers parsed from the last line read
    fs,       \* the file system: path -> file
    saves,    \* number of files written so far in the session
    report    \* the messages printed by the last step

vars == <<pc, choice, name, A, B, res, rows, cols, mat, r, nums, fs, saves, report>>

\* the locals of input_matrix()
locals == <<rows, cols, mat, r, nums>>

-----------------------------------------------------------------------------
(* Bounds of the model *)

\* largest number of rows / columns a user asks for
MaxDim == 2
\* largest number of elements of an operand drawn for the arithmetic service
MaxCells == 4
\* entries of the drawn operands are 0..MaxVal, typed numerals are 1..MaxVal
MaxVal == 2
\* longest line typed to input_matrix, in tokens
MaxTok == 5
\* most lines of a text file found on disk
MaxFileLines == 2
\* most files a session writes
MaxSaves == 1

-----------------------------------------------------------------------------
(* Exact rationals *)

Abs(x) == IF x < 0 THEN -x ELSE x

RECURSIVE GCD(_, _)
GCD(a, b) == IF b = 0 THEN a ELSE GCD(b, a % b)

RNorm(n, d) ==
    LET s == IF d < 0 THEN -1 ELSE 1
        g == GCD(Abs(n), Abs(d))
    IN  IF n = 0 THEN <<0, 1>> ELSE <<(s * n) \div g, (s * d) \div g>>

Q(n) == <<n, 1>>
RAdd(x, y) == RNorm(x[1] * y[2] + y[1] * x[2], x[2] * y[2])
RNeg(x) == <<-x[1], x[2]>>
RSub(x, y) == RAdd(x, RNeg(y))
RMul(x, y) == RNorm(x[1] * y[1], x[2] * y[2])
RDiv(x, y) == RNorm(x[1] * y[2], x[2] * y[1])
RAbs(x) == <<Abs(x[1]), x[2]>>
RLess(x, y) == x[1] * y[2] < y[1] * x[2]

-----------------------------------------------------------------------------
(* numpy arrays *)

NoneVal == [rows |-> -1, cols |-> -1, data |-> <<>>]

Mat(nr, nc, d) == [rows |-> nr, cols |-> nc, data |-> d]

shape(M) == <<M.rows, M.cols>>

\* np.zeros((rows, cols), dtype=float)
zeros(nr, nc) == Mat(nr, nc, [i \in 1..nr |-> [j \in 1..nc |-> Q(0)]])

\* np.array(flat, dtype=float).reshape(nr, nc): row-major
reshape(flat, nr, nc) ==
    Mat(nr, nc, [i \in 1..nr |-> [j \in 1..nc |-> flat[(i - 1) * nc + j]]])

RowsOf(nc, S) == [1..nc -> S]

\* every nr x nc matrix with entries in S
MatricesOf(nr, nc, S) == {Mat(nr, nc, d) : d \in [1..nr -> RowsOf(nc, S)]}

\* the matrices of the demo scenario of main() (lines 199-200)
DemoA == Mat(2, 2, << <<Q(1), Q(2)>>, <<Q(3), Q(4)>> >>)
DemoB == Mat(2, 2, << <<Q(5), Q(6)>>, <<Q(7), Q(8)>> >>)

\* the outcome of a call: a returned value, or a raised exception
Return(v) == [ok |-> TRUE, exc |-> "", msg |-> "", val |-> v]
Raise(e, m) == [ok |-> FALSE, exc |-> e, msg |-> m, val |-> NoneVal]

-----------------------------------------------------------------------------
(* The arithmetic service *)

\* A + B on arrays of equal shape
ArrayAdd(X, Y) ==
    Mat(X.rows, X.cols,
        [i \in 1..X.rows |-> [j \in 1..X.cols |-> RAdd(X.data[i][j], Y.data[i][j])]])

\* B - A in place of A - B
ArraySub_swapped(X, Y) ==
    Mat(X.rows, X.cols,
        [i \in 1..X.rows |-> [j \in 1..X.cols |-> RSub(Y.data[i][j], X.data[i][j])]])

\* A - B on arrays of equal shape
ArraySub(X, Y) ==
    Mat(X.rows, X.cols,
        [i \in 1..X.rows |-> [j \in 1..X.cols |-> RSub(X.data[i][j], Y.data[i][j])]])

\* the accumulation of one entry of A.dot(B): row i of X against column j of Y
RECURSIVE DotAcc(_, _, _, _, _)
DotAcc(X, Y, i, j, k) ==
    IF k = 0 THEN Q(0)
    ELSE RAdd(DotAcc(X, Y, i, j, k - 1), RMul(X.data[i][k], Y.data[k][j]))

\* a product whose sums stop one term early
ArrayDot_short(X, Y) ==
    Mat(X.rows, Y.cols,
        [i \in 1..X.rows |-> [j \in 1..Y.cols |-> DotAcc(X, Y, i, j, X.cols - 1)]])

\* A.dot(B) for A.shape[1] = B.shape[0]
ArrayDot(X, Y) ==
    Mat(X.rows, Y.cols,
        [i \in 1..X.rows |-> [j \in 1..Y.cols |-> DotAcc(X, Y, i, j, X.cols)]])

\* A + B as numpy adds arrays of different shape: an axis of length 1 is
\* stretched (broadcast); other shapes raise
add_matrices_broadcast(X, Y) ==
    IF (X.rows # Y.rows /\ X.rows # 1 /\ Y.rows # 1) \/ (X.cols # Y.cols /\ X.cols # 1 /\ Y.cols # 1)
    THEN Raise("ValueError", "operands could not be broadcast together")
    ELSE LET nr == IF X.rows = 1 THEN Y.rows ELSE X.rows
             nc == IF X.cols = 1 THEN Y.cols ELSE X.cols
         IN  Return(Mat(nr, nc, [i \in 1..nr |-> [j \in 1..nc |->
                 RAdd(X.data[IF X.rows = 1 THEN 1 ELSE i][IF X.cols = 1 THEN 1 ELSE j],
                      Y.data[IF Y.rows = 1 THEN 1 ELSE i][IF Y.cols = 1 THEN 1 ELSE j])]]))

add_matrices(X, Y) ==
    IF shape(X) # shape(Y)
    THEN Raise("ValueError", "Addition requires matrices of the same shape.")
    ELSE Return(ArrayAdd(X, Y))

sub_matrices(X, Y) ==
    IF shape(X) # shape(Y)
    THEN Raise("ValueError", "Subtraction requires matrices of the same shape.")
    ELSE Return(ArraySub(X, Y))

mul_matrices(X, Y) ==
    IF X.cols # Y.rows
    THEN Raise("ValueError", "Matrix multiplication requires inner dimensions to match (A.cols == B.rows).")
    ELSE Return(ArrayDot(X, Y))

-----------------------------------------------------------------------------
(* np.linalg.inv and np.linalg.cond *)

\* the n x 2n matrix [X | I], as a sequence of rows
Augment(X, n) ==
    [i \in 1..n |-> [j \in 1..(2 * n) |->
        IF j <= n THEN X.data[i][j] ELSE IF j - n = i THEN Q(1) ELSE Q(0)]]

\* elimination without pivoting: the pivot is taken from row k
PivotRow_none(M, k, n) == k

\* partial pivoting: the first row of k..n whose entry in column k is largest in magnitude
PivotRow(M, k, n) ==
    CHOOSE p \in k..n :
        /\ \A q \in k..n : ~RLess(RAbs(M[p][k]), RAbs(M[q][k]))
        /\ \A q \in k..(p - 1) : RLess(RAbs(M[q][k]), RAbs(M[p][k]))

SwapRows(M, a, b) ==
    [i \in DOMAIN M |-> IF i = a THEN M[b] ELSE IF i = b THEN M[a] ELSE M[i]]

\* one elimination step on column k with the pivot already in row k
EliminateColumn(M, k) ==
    LET prow == [j \in DOMAIN M[k] |-> RDiv(M[k][j], M[k][k])]
    IN  [i \in DOMAIN M |->
            IF i = k THEN prow
            ELSE [j \in DOMAIN M[i] |-> RSub(M[i][j], RMul(M[i][k], prow[j]))]]

\* elimination with partial pivoting of [X | I]; not ok when a pivot column is all zero
RECURSIVE GaussJordan(_, _, _)
GaussJordan(M, k, n) ==
    IF k > n THEN [ok |-> TRUE, m |-> M]
    ELSE LET p == PivotRow(M, k, n)
         IN  IF M[p][k] = Q(0) THEN [ok |-> FALSE, m |-> M]
             ELSE GaussJordan(EliminateColumn(SwapRows(M, k, p), k), k + 1, n)

\* np.linalg.inv(A) for a square A: the inverse, or LinAlgError("Singular matrix")
linalg_inv(X) ==
    LET n == X.rows
        g == GaussJordan(Augment(X, n), 1, n)
    IN  IF g.ok
        THEN Return(Mat(n, n, [i \in 1..n |-> [j \in 1..n |-> g.m[i][n + j]]]))
        ELSE Raise("LinAlgError", "Singular matrix")

\* np.linalg.cond(A) > 1e12 for a square A.  The 2-norm condition number is
\* F^n / |det| at most (F the Frobenius norm), far below 1e12 for every
\* nonsingular matrix of the model's value range, and inf for a singular one.
\* cond raises LinAlgError on an empty array.
linalg_cond_large(X) ==
    IF X.rows = 0 THEN Raise("LinAlgError", "cond is not defined on empty arrays")
    ELSE [ok |-> TRUE, exc |-> "", msg |-> "", val |-> NoneVal,
          large |-> ~GaussJordan(Augment(X, X.rows), 1, X.rows).ok]

WarnCond == "Warning: condition number is very large"

\* the messages invert_matrix prints
invert_warnings(X) ==
    IF X.rows = X.cols /\ linalg_cond_large(X).ok /\ linalg_cond_large(X).large
    THEN <<WarnCond>> ELSE <<>>

\* invert_matrix without the conversion of LinAlgError into ValueError
invert_matrix_unconverted(X) ==
    IF X.rows # X.cols
    THEN Raise("ValueError", "Only square matrices can be inverted.")
    ELSE IF ~linalg_cond_large(X).ok
    THEN Raise("LinAlgError", "cond is not defined on empty arrays")
    ELSE linalg_inv(X)

invert_matrix(X) ==
    IF X.rows # X.cols
    THEN Raise("ValueError", "Only square matrices can be inverted.")
    ELSE IF ~linalg_cond_large(X).ok
    THEN Raise("LinAlgError", "cond is not defined on empty arrays")
    ELSE IF linalg_inv(X).ok
    THEN Return(linalg_inv(X).val)
    ELSE Raise("ValueError", "Matrix is singular and cannot be inverted.")

-----------------------------------------------------------------------------
(* Text: lines, tokens, files *)

\* A line of text is a sequence of tokens.  A token is a numeral (num, with
\* its value v) or a non-numeric word, and sep is the separator written
\* before it: "sp" (white space) or "comma" (ignored on the first token).
Tok(isnum, val, s) == [num |-> isnum, v |-> val, sep |-> s]

Seps == {"sp", "comma"}

\* the tokens of a text: the numerals 1..MaxVal and a word, after either separator
TypedTokens ==
    {Tok(TRUE, Q(v), s) : v \in 1..MaxVal, s \in Seps} \cup {Tok(FALSE, Q(0), s) : s \in Seps}

SeqsUpTo(S, n) == UNION {[1..k -> S] : k \in 0..n}

\* the lines typed to input_matrix
Lines == SeqsUpTo(TypedTokens, MaxTok)

\* the lines typed in a whole session: the numeral 1 and a word
SessionLines == SeqsUpTo({Tok(TRUE, Q(1), "comma"), Tok(FALSE, Q(0), "sp")}, MaxCells)

\* line.replace(",", " ").split(), then float(p) of each part, the parts
\* float() rejects being dropped
RECURSIVE parse_numbers_from_line(_)
parse_numbers_from_line(line) ==
    IF line = <<>> THEN <<>>
    ELSE LET rest == parse_numbers_from_line(Tail(line))
         IN  IF Head(line).num THEN <<Head(line).v>> \o rest ELSE rest

RECURSIVE Pow10(_)
Pow10(k) == IF k = 0 THEN 1 ELSE 10 * Pow10(k - 1)

\* n / d rounded to the nearest integer, ties to even (n >= 0, d > 0)
RoundHalfEven(n, d) ==
    LET q == n \div d
        rem2 == 2 * (n % d)
    IN  IF rem2 > d \/ (rem2 = d /\ q % 2 = 1) THEN q + 1 ELSE q

\* the decimal exponent e of a = n / d > 0: 10^e <= a < 10^(e+1)
RECURSIVE ExpUp(_, _, _)
ExpUp(n, d, e) == IF n >= 10 * d THEN ExpUp(n, 10 * d, e + 1) ELSE e
RECURSIVE ExpDown(_, _, _)
ExpDown(n, d, e) == IF n < d THEN ExpDown(10 * n, d, e - 1) ELSE e
Exp10(n, d) == IF n >= d THEN ExpUp(n, d, 0) ELSE ExpDown(n, d, 0)

\* digits kept by the format "%.8g"
SigDigits == 8

\* float("%.8g" % x): x rounded to SigDigits significant decimal digits
Fmt8g(x) ==
    IF x[1] = 0 THEN Q(0)
    ELSE LET sgn == IF x[1] < 0 THEN -1 ELSE 1
             n == Abs(x[1])
             d == x[2]
             s == (SigDigits - 1) - Exp10(n, d)
             m == IF s >= 0 THEN RoundHalfEven(n * Pow10(s), d)
                  ELSE RoundHalfEven(n, d * Pow10(-s))
         IN  IF s >= 0 THEN RNorm(sgn * m, Pow10(s)) ELSE Q(sgn * m * Pow10(-s))

\* np.savetxt(path, mat, delimiter=",", fmt="%.8g"): the text written
savetxt(M) ==
    [i \in 1..M.rows |-> [j \in 1..M.cols |-> Tok(TRUE, Fmt8g(M.data[i][j]), "comma")]]

\* line.split(","): the fields of a line, each the tokens between two commas
RECURSIVE SplitComma(_)
SplitComma(line) ==
    IF line = <<>> THEN <<>>
    ELSE LET rest == SplitComma(Tail(line))
         IN  IF Len(line) > 1 /\ line[2].sep = "sp"
             THEN <<<<Head(line)>> \o Head(rest)>> \o Tail(rest)
             ELSE <<<<Head(line)>>>> \o rest

\* float(field) succeeds: the field is one numeral
FieldOk(f) == Len(f) = 1 /\ f[1].num

\* np.loadtxt(path, delimiter=","): blank lines are skipped; every field must
\* convert and every line must have the same number of fields
loadtxt(text) ==
    LET data == SelectSeq(text, LAMBDA l : l # <<>>)
        flds == [i \in 1..Len(data) |-> SplitComma(data[i])]
    IN  IF \E i \in 1..Len(flds) : \E j \in 1..Len(flds[i]) : ~FieldOk(flds[i][j])
        THEN Raise("ValueError", "could not convert string to float")
        ELSE IF \E i \in 1..Len(flds) : Len(flds[i]) # Len(flds[1])
        THEN Raise("ValueError", "the number of columns changed")
        ELSE IF Len(flds) = 0
        THEN Return(Mat(0, 0, <<>>))
        ELSE Return(Mat(Len(flds), Len(flds[1]),
                        [i \in 1..Len(flds) |-> [j \in 1..Len(flds[1]) |-> flds[i][j][1].v]]))

\* loadtxt squeezes its result (ndmin=0): one row or one column comes back
\* 1-D, no data comes back as an empty 1-D array; np.atleast_2d then makes
\* a 1-D array of N values the 1 x N matrix
atleast_2d(X) ==
    IF X.rows = 1 \/ X.cols = 1 \/ X.rows = 0
    THEN Mat(1, X.rows * X.cols,
             <<[k \in 1..(X.rows * X.cols) |->
                 IF X.rows = 1 THEN X.data[1][k] ELSE X.data[k][1]]>>)
    ELSE X

NoFile == [exists |-> FALSE, text |-> <<>>]
File(t) == [exists |-> TRUE, text |-> t]

\* the paths a user names: a file of the working directory, and a path in
\* a directory that does not exist (open() fails for reading and writing)
GoodPath == "m.csv"
BadPath == "nodir/m.csv"
Paths == {GoodPath, BadPath}

\* load_matrix_from_file() given the path read: the matrix, or None
load_matrix_from_file(path, files) ==
    IF path # GoodPath \/ ~files[GoodPath].exists
    THEN [val |-> NoneVal, printed |-> <<"Failed to load file:", "No such file or directory">>]
    ELSE LET x == loadtxt(files[GoodPath].text)
         IN  IF x.ok THEN [val |-> atleast_2d(x.val), printed |-> <<"Loaded matrix from", path>>]
             ELSE [val |-> NoneVal, printed |-> <<"Failed to load file:", x.msg>>]

\* save_matrix(mat) given the path read: the file system after it, and what is printed
save_matrix(path, M, files) ==
    IF path = "" THEN [fs |-> files, printed |-> <<>>]
    ELSE IF path # GoodPath
    THEN [fs |-> files, printed |-> <<"Failed to save:", "No such file or directory">>]
    ELSE [fs |-> [files EXCEPT ![GoodPath] = File(savetxt(M))], printed |-> <<"Saved to", path>>]

-----------------------------------------------------------------------------
(* The interactive program: main(), choose_matrix(), input_matrix() *)

\* what int(input(...)) can give: ValueError, or an integer
IntInputs ==
    {[valid |-> FALSE, v |-> 0]} \cup {[valid |-> TRUE, v |-> k] : k \in (-1)..MaxDim}

\* what float(input(...) or 1.0) can give: ValueError, 1.0 (blank), or a scale
ScaleInputs ==
    {[valid |-> FALSE, v |-> Q(0)], [valid |-> TRUE, v |-> Q(1)], [valid |-> TRUE, v |-> Q(2)]}

\* values np.random.rand can draw from [0, 1)
RandVals == {<<1, 2>>}

\* np.random.rand(rows, cols): any array of the shape with entries in [0, 1)
random_rand(nr, nc) == MatricesOf(nr, nc, RandVals)

\* mat * scale
Scaled(M, sc) ==
    Mat(M.rows, M.cols,
        [i \in 1..M.rows |-> [j \in 1..M.cols |-> RMul(M.data[i][j], sc)]])

MenuChoices == {"1", "2", "3", "4", "5", "q", "x"}

\* except ValueError (line 255): LinAlgError derives from ValueError
InnerCatches(exc) == exc \in {"ValueError", "LinAlgError"}
\* a handler for OSError only in place of except Exception
OuterCatches_os_only(exc) == exc = "OSError"
\* except Exception (line 260)
OuterCatches(exc) == exc \in {"ValueError", "LinAlgError", "OSError", "TypeError"}

\* the locals of input_matrix() are gone once it returns
NoLocals == rows' = 0 /\ cols' = 0 /\ mat' = NoneVal /\ r' = 0

\* the next iteration of the while loop of main(); A, B and res are rebound
\* before they are read again
BackToMenu(printed) ==
    /\ pc' = "menu"
    /\ name' = ""
    /\ A' = NoneVal /\ B' = NoneVal /\ res' = NoneVal
    /\ NoLocals
    /\ nums' = <<>>
    /\ report' = printed
    /\ UNCHANGED <<choice, fs, saves>>

\* an exception leaves the try block of main() (lines 218-261)
Raised(exc, msg, printed) ==
    IF OuterCatches(exc)
    THEN BackToMenu(printed \o <<"Operation failed:", msg>>)
    ELSE /\ pc' = "crashed"
         /\ report' = printed \o <<msg>>
         /\ UNCHANGED <<choice, name, A, B, res, locals, fs, saves>>

\* the operation of the menu choice
Operate(c, X, Y) ==
    IF c = "1" THEN add_matrices(X, Y)
    ELSE IF c = "2" THEN sub_matrices(X, Y)
    ELSE mul_matrices(X, Y)

\* choose_matrix(name) returns m to main(), which goes on to the next
\* input(): the second operand, or the operation and save_matrix; read is
\* the numbers of the line read last
Deliver(m, read, printed) ==
    IF name = "A" /\ choice \in {"1", "2", "3"}
    THEN /\ A' = m
         /\ name' = "B"
         /\ pc' = "choose"
         /\ NoLocals
         /\ nums' = read
         /\ report' = printed
         /\ UNCHANGED <<choice, B, res, fs, saves>>
    ELSE IF name = "A"
    THEN LET out == invert_matrix(m)
             warned == printed \o invert_warnings(m)
         IN  IF out.ok
             THEN /\ A' = m
                  /\ res' = out.val
                  /\ pc' = "save"
                  /\ NoLocals
                  /\ nums' = read
                  /\ report' = warned
                  /\ UNCHANGED <<choice, name, B, fs, saves>>
             ELSE IF InnerCatches(out.exc)
             THEN BackToMenu(warned \o <<"Error:", out.msg>>)
             ELSE Raised(out.exc, out.msg, warned)
    ELSE LET out == Operate(choice, A, m)
         IN  IF out.ok
             THEN /\ B' = m
                  /\ res' = out.val
                  /\ pc' = "save"
                  /\ NoLocals
                  /\ nums' = read
                  /\ report' = printed
                  /\ UNCHANGED <<choice, name, A, fs, saves>>
             ELSE Raised(out.exc, out.msg, printed)

\* the demo branch of main() (lines 197-216), outside the try block
Demo ==
    IF add_matrices(DemoA, DemoB).ok /\ sub_matrices(DemoA, DemoB).ok
       /\ mul_matrices(DemoA, DemoB).ok
    THEN LET out == invert_matrix(DemoA)
         IN  IF out.ok \/ InnerCatches(out.exc)
             THEN BackToMenu(<<"Demo">> \o invert_warnings(DemoA)
                             \o (IF out.ok THEN <<>> ELSE <<"Inverse error:", out.msg>>))
             ELSE /\ pc' = "crashed"
                  /\ report' = <<out.msg>>
                  /\ UNCHANGED <<name, A, B, res, locals, fs, saves>>
    ELSE /\ pc' = "crashed"
         /\ report' = <<"ValueError">>
         /\ UNCHANGED <<name, A, B, res, locals, fs, saves>>

\* main(): one menu prompt
MainMenu ==
    /\ pc = "menu"
    /\ \E c \in MenuChoices :
        /\ choice' = c
        /\ IF c = "q"
           THEN /\ pc' = "done"
                /\ report' = <<"Goodbye!">>
                /\ UNCHANGED <<name, A, B, res, locals, fs, saves>>
           ELSE IF c = "5"
           THEN Demo
           ELSE IF c \in {"1", "2", "3", "4"}
           THEN /\ pc' = "choose"
                /\ name' = "A"
                /\ report' = <<>>
                /\ UNCHANGED <<A, B, res, locals, fs, saves>>
           ELSE /\ pc' = "menu"
                /\ report' = <<"Unknown choice. Try again.">>
                /\ UNCHANGED <<name, A, B, res, locals, fs, saves>>

\* choose_matrix(): the prompt for the source, and the prompts of the
\* file and random branches
ChooseFile ==
    /\ pc = "choose"
    /\ \E path \in Paths :
        LET l == load_matrix_from_file(path, fs)
        IN  IF l.val # NoneVal
            THEN Deliver(l.val, nums, l.printed)
            ELSE /\ pc' = "im_dims"
                 /\ report' = l.printed \o <<"Falling back to interactive input.">>
                 /\ UNCHANGED <<choice, name, A, B, res, locals, fs, saves>>

ChooseRandom ==
    /\ pc = "choose"
    /\ \E ri \in IntInputs, ci \in IntInputs, sc \in ScaleInputs :
        IF ~ri.valid \/ ~ci.valid
        THEN Raised("ValueError", "invalid literal for int()", <<>>)
        ELSE IF ~sc.valid
        THEN Raised("ValueError", "could not convert string to float", <<>>)
        ELSE IF ri.v < 0 \/ ci.v < 0
        THEN Raised("ValueError", "negative dimensions are not allowed", <<>>)
        ELSE \E m \in random_rand(ri.v, ci.v) : Deliver(Scaled(m, sc.v), nums, <<>>)

ChooseInteractive ==
    /\ pc = "choose"
    /\ pc' = "im_dims"
    /\ report' = <<>>
    /\ UNCHANGED <<choice, name, A, B, res, locals, fs, saves>>

\* input_matrix(): the prompts for rows and columns (lines 46-55)
InputDims ==
    /\ pc = "im_dims"
    /\ \E ri \in IntInputs, ci \in IntInputs :
        IF ~ri.valid \/ ~ci.valid
        THEN /\ report' = <<"Invalid integer. Try again.">>
             /\ UNCHANGED <<pc, choice, name, A, B, res, locals, fs, saves>>
        ELSE IF ri.v <= 0 \/ ci.v <= 0
        THEN /\ report' = <<"Rows and columns must be positive integers. Try again.">>
             /\ UNCHANGED <<pc, choice, name, A, B, res, locals, fs, saves>>
        ELSE /\ rows' = ri.v
             /\ cols' = ci.v
             /\ pc' = "im_mode"
             /\ report' = <<>>
             /\ UNCHANGED <<choice, name, A, B, res, mat, r, nums, fs, saves>>

\* row-by-row input starts (line 77)
StartRows(read, printed) ==
    /\ pc' = "im_row"
    /\ mat' = zeros(rows, cols)
    /\ r' = 0
    /\ nums' = read
    /\ report' = printed
    /\ UNCHANGED <<choice, name, A, B, res, rows, cols, fs, saves>>

\* input_matrix(): the prompt for the entry mode (lines 57-67)
InputMode ==
    /\ pc = "im_mode"
    /\ \E mode \in {"1", "2", "3"} :
        IF mode = "3"
        THEN \E m \in random_rand(rows, cols) : Deliver(m, nums, <<>>)
        ELSE IF mode = "2"
        THEN /\ pc' = "im_paste"
             /\ report' = <<>>
             /\ UNCHANGED <<choice, name, A, B, res, locals, fs, saves>>
        ELSE StartRows(nums, <<>>)

\* input_matrix(): the pasted line (lines 68-74)
InputPasteLine(line) ==
    /\ pc = "im_paste"
    /\ LET read == parse_numbers_from_line(line)
       IN  IF Len(read) # rows * cols
           THEN StartRows(read, <<"Falling back to row-by-row input.">>)
           ELSE Deliver(reshape(read, rows, cols), read, <<>>)

InputPaste == \E line \in SessionLines : InputPasteLine(line)

\* row entry that takes the first cols numbers of a longer line
InputRowLine_lenient(line) ==
    /\ pc = "im_row"
    /\ LET read == parse_numbers_from_line(line)
       IN  IF Len(read) < cols
           THEN /\ nums' = read
                /\ report' = <<"Expected numbers. Try again.">>
                /\ UNCHANGED <<pc, choice, name, A, B, res, rows, cols, mat, r, fs, saves>>
           ELSE IF r + 1 < rows
           THEN /\ mat' = [mat EXCEPT !.data[r + 1] = SubSeq(read, 1, cols)]
                /\ r' = r + 1
                /\ nums' = read
                /\ report' = <<>>
                /\ UNCHANGED <<pc, choice, name, A, B, res, rows, cols, fs, saves>>
           ELSE Deliver([mat EXCEPT !.data[r + 1] = SubSeq(read, 1, cols)], read, <<>>)

\* input_matrix(): the line of row r+1 (lines 78-87)
InputRowLine(line) ==
    /\ pc = "im_row"
    /\ LET read == parse_numbers_from_line(line)
       IN  IF Len(read) # cols
           THEN /\ nums' = read
                /\ report' = <<"Expected numbers. Try again.">>
                /\ UNCHANGED <<pc, choice, name, A, B, res, rows, cols, mat, r, fs, saves>>
           ELSE IF r + 1 < rows
           THEN /\ mat' = [mat EXCEPT !.data[r + 1] = read]
                /\ r' = r + 1
                /\ nums' = read
                /\ report' = <<>>
                /\ UNCHANGED <<pc, choice, name, A, B, res, rows, cols, fs, saves>>
           ELSE Deliver([mat EXCEPT !.data[r + 1] = read], read, <<>>)

InputRow == \E line \in SessionLines : InputRowLine(line)

\* save_matrix(res): the prompt for the file name; a session writes at
\* most MaxSaves files
SaveResult ==
    /\ pc = "save"
    /\ \E path \in {"", BadPath} \cup (IF saves < MaxSaves THEN {GoodPath} ELSE {}) :
        LET s == save_matrix(path, res, fs)
        IN  /\ fs' = s.fs
            /\ saves' = IF path = GoodPath THEN saves + 1 ELSE saves
            /\ report' = s.printed
            /\ pc' = "viz"
            /\ UNCHANGED <<choice, name, A, B, res, locals>>

\* the prompt "Visualize result? (y/N)" and visualize_matrix()
Visualize ==
    /\ pc = "viz"
    /\ \E ans \in {"y", "n"}, HAS_MPL \in BOOLEAN :
        BackToMenu(IF ans = "y" /\ ~HAS_MPL THEN <<"matplotlib not available.">> ELSE <<>>)

\* the file of the working directory when the session starts: none, a
\* comma-separated matrix, the same matrix separated by white space
CommaFile == File(<<<<Tok(TRUE, Q(1), "comma"), Tok(TRUE, Q(2), "comma")>>,
                    <<Tok(TRUE, Q(3), "comma"), Tok(TRUE, Q(4), "comma")>>>>)
SpaceFile == File(<<<<Tok(TRUE, Q(1), "sp"), Tok(TRUE, Q(2), "sp")>>,
                    <<Tok(TRUE, Q(3), "sp"), Tok(TRUE, Q(4), "sp")>>>>)

InitFiles == {[p \in {GoodPath} |-> f] : f \in {NoFile, CommaFile, SpaceFile}}

Init ==
    /\ pc = "menu"
    /\ choice = ""
    /\ name = ""
    /\ A = NoneVal /\ B = NoneVal /\ res = NoneVal
    /\ rows = 0 /\ cols = 0 /\ mat = NoneVal /\ r = 0 /\ nums = <<>>
    /\ saves = 0
    /\ fs \in InitFiles
    /\ report = <<>>

Next ==
    \/ MainMenu
    \/ ChooseFile
    \/ ChooseRandom
    \/ ChooseInteractive
    \/ InputDims
    \/ InputMode
    \/ InputPaste
    \/ InputRow
    \/ SaveResult
    \/ Visualize

Spec == Init /\ [][Next]_vars

-----------------------------------------------------------------------------
(* The arithmetic service on drawn operands *)

Vals == {Q(v) : v \in 0..MaxVal}

Shapes == {s \in (1..MaxDim) \X (1..MaxDim) : s[1] * s[2] <= MaxCells}

Operands == UNION {MatricesOf(s[1], s[2], Vals) : s \in Shapes} \cup {DemoA, DemoB}

\* The arithmetic service applied to drawn operands
InitOps ==
    /\ pc = "ops"
    /\ choice = ""
    /\ name = ""
    /\ A \in Operands
    /\ B \in Operands
    /\ res = NoneVal
    /\ rows = 0 /\ cols = 0 /\ mat = NoneVal /\ r = 0 /\ nums = <<>>
    /\ saves = 0
    /\ fs = [p \in {GoodPath} |-> NoFile]
    /\ report = <<>>

\* one call of the service: its result (NoneVal when it raised) and what it printed
Apply(out, op, printed) ==
    /\ pc = "ops"
    /\ pc' = "applied"
    /\ choice' = op
    /\ res' = out.val
    /\ report' = IF out.ok THEN printed ELSE printed \o <<out.msg>>
    /\ UNCHANGED <<name, A, B, locals, fs, saves>>

OpAdd == Apply(add_matrices(A, B), "1", <<>>)
OpSub == Apply(sub_matrices(A, B), "2", <<>>)
OpMul == Apply(mul_matrices(A, B), "3", <<>>)
OpInv == Apply(invert_matrix(A), "4", invert_warnings(A))

\* a second call on the result of the first: sub_matrices(add_matrices(A, B), B)
OpSubBack ==
    /\ pc = "applied" /\ choice = "1" /\ res # NoneVal
    /\ pc' = "undone"
    /\ res' = sub_matrices(res, B).val
    /\ UNCHANGED <<choice, name, A, B, locals, fs, saves, report>>

\* a second call on the result of the first: mul_matrices(A, invert_matrix(A))
OpMulBack ==
    /\ pc = "applied" /\ choice = "4" /\ res # NoneVal
    /\ pc' = "undone"
    /\ res' = mul_matrices(A, res).val
    /\ UNCHANGED <<choice, name, A, B, locals, fs, saves, report>>

NextOps == OpAdd \/ OpSub \/ OpMul \/ OpInv \/ OpSubBack \/ OpMulBack

SpecOps == InitOps /\ [][NextOps]_vars

-----------------------------------------------------------------------------
(* input_matrix() on the lines of Lines *)

\* input_matrix("A") called for the first operand of an addition
InitInput ==
    /\ pc = "im_dims"
    /\ choice = "1"
    /\ name = "A"
    /\ A = NoneVal /\ B = NoneVal /\ res = NoneVal
    /\ rows = 0 /\ cols = 0 /\ mat = NoneVal /\ r = 0 /\ nums = <<>>
    /\ saves = 0
    /\ fs = [p \in {GoodPath} |-> NoFile]
    /\ report = <<>>

InputPasteAny == \E line \in Lines : InputPasteLine(line)

InputRowAny == \E line \in Lines : InputRowLine(line)

NextInput == InputDims \/ InputMode \/ InputPasteAny \/ InputRowAny

SpecInput == InitInput /\ [][NextInput]_vars

-----------------------------------------------------------------------------
(* save_matrix() and load_matrix_from_file() on drawn matrices and files *)

\* values of the matrices saved: 1/3 has more than SigDigits digits
FileVals == {Q(1), <<-1, 2>>, <<1, 3>>}

SaveOperands == UNION {MatricesOf(s[1], s[2], FileVals) : s \in Shapes}

\* the texts of a file found on disk
FileTexts == SeqsUpTo(SeqsUpTo(TypedTokens, MaxDim), MaxFileLines)

\* either a result is about to be saved, or a file is about to be loaded
InitFile ==
    /\ choice = ""
    /\ name = "A"
    /\ A = NoneVal /\ B = NoneVal
    /\ rows = 0 /\ cols = 0 /\ mat = NoneVal /\ r = 0 /\ nums = <<>>
    /\ saves = 0
    /\ report = <<>>
    /\ \/ /\ pc = "fsave"
          /\ res \in SaveOperands
          /\ fs = [p \in {GoodPath} |-> NoFile]
       \/ /\ pc = "fload"
          /\ res = NoneVal
          /\ fs \in {[p \in {GoodPath} |-> File(t)] : t \in FileTexts}

\* save_matrix(res), res kept
FileSave ==
    /\ pc = "fsave"
    /\ \E path \in Paths \cup {""} :
        LET s == save_matrix(path, res, fs)
        IN  /\ fs' = s.fs
            /\ saves' = IF path = GoodPath THEN saves + 1 ELSE saves
            /\ report' = s.printed
            /\ pc' = "fload"
            /\ UNCHANGED <<choice, name, A, B, res, locals>>

\* choose_matrix() with choice "2": the matrix loaded, or the fall back to
\* input_matrix()
FileLoad ==
    /\ pc = "fload"
    /\ \E path \in Paths :
        LET l == load_matrix_from_file(path, fs)
        IN  /\ A' = l.val
            /\ pc' = IF l.val # NoneVal THEN "floaded" ELSE "im_dims"
            /\ report' = l.printed
                          \o (IF l.val # NoneVal THEN <<>>
                              ELSE <<"Falling back to interactive input.">>)
            /\ UNCHANGED <<choice, name, B, res, locals, fs, saves>>

NextFile == FileSave \/ FileLoad

SpecFile == InitFile /\ [][NextFile]_vars

-----------------------------------------------------------------------------
(* Reference notions the claims are stated with *)

\* the determinant by Laplace expansion along the first row
MinorOf(D, j) ==
    [i \in 1..(Len(D) - 1) |-> [c \in 1..(Len(D) - 1) |->
        IF c < j THEN D[i + 1][c] ELSE D[i + 1][c + 1]]]

RECURSIVE Det(_)
RECURSIVE Laplace(_, _)
Laplace(D, j) ==
    IF j = 0 THEN Q(0)
    ELSE LET t == RMul(D[1][j], Det(MinorOf(D, j)))
         IN  RAdd(Laplace(D, j - 1), IF j % 2 = 1 THEN t ELSE RNeg(t))
Det(D) == IF Len(D) = 0 THEN Q(1) ELSE Laplace(D, Len(D))

IsSquare(M) == M.rows = M.cols
IsSingular(M) == IsSquare(M) /\ Det(M.data) = Q(0)

Identity(n) == Mat(n, n, [i \in 1..n |-> [j \in 1..n |-> IF i = j THEN Q(1) ELSE Q(0)]])

\* z = x + y and z = x - y, by cross-multiplication
IsSum(z, x, y) == z[1] * x[2] * y[2] = (x[1] * y[2] + y[1] * x[2]) * z[2]
IsDiff(z, x, y) == z[1] * x[2] * y[2] = (x[1] * y[2] - y[1] * x[2]) * z[2]

\* the sum of f over the index set S
RECURSIVE SumOver(_, _)
SumOver(S, f) ==
    IF S = {} THEN Q(0)
    ELSE LET k == CHOOSE x \in S : \A y \in S : x >= y
         IN  RAdd(RMul(f[k][1], f[k][2]), SumOver(S \ {k}, f))

MsgAddShape == "Addition requires matrices of the same shape."
MsgSubShape == "Subtraction requires matrices of the same shape."
MsgInner == "Matrix multiplication requires inner dimensions to match (A.cols == B.rows)."
MsgNotSquare == "Only square matrices can be inverted."
MsgSingular == "Matrix is singular and cannot be inverted."

-----------------------------------------------------------------------------
(* Claims on the arithmetic service (under SpecOps) *)

\* C1: add_matrices and sub_matrices on operands of different shape fail with
\* the shape-mismatch error, mul_matrices on operands whose inner dimensions
\* differ fails with the inner-dimension error, and no matrix is returned.
C1_MismatchFails ==
    pc = "applied" =>
        /\ (choice = "1" /\ shape(A) # shape(B)) => (res = NoneVal /\ report = <<MsgAddShape>>)
        /\ (choice = "2" /\ shape(A) # shape(B)) => (res = NoneVal /\ report = <<MsgSubShape>>)
        /\ (choice = "3" /\ A.cols # B.rows) => (res = NoneVal /\ report = <<MsgInner>>)

C1_Witness ==
    /\ pc = "applied" /\ choice = "3"
    /\ shape(A) = <<1, 2>> /\ shape(B) = <<1, 2>>
    /\ res = NoneVal /\ report = <<MsgInner>>

C3_Product ==
    (pc = "applied" /\ choice = "3" /\ A.cols = B.rows) =>
        /\ res # NoneVal /\ report = <<>>
        /\ shape(res) = <<A.rows, B.cols>>
        /\ \A i \in 1..A.rows : \A j \in 1..B.cols :
              res.data[i][j] =
                  SumOver(1..A.cols, [k \in 1..A.cols |-> <<A.data[i][k], B.data[k][j]>>])
        /\ (A = DemoA /\ B = DemoB) =>
              res.data = << <<Q(19), Q(22)>>, <<Q(43), Q(50)>> >>

C3_Witness ==
    /\ pc = "applied" /\ choice = "3"
    /\ A = DemoA /\ B = DemoB
    /\ res = Mat(2, 2, << <<Q(19), Q(22)>>, <<Q(43), Q(50)>> >>)

\* C4: on operands of equal shape add_matrices and sub_matrices return the
\* element-wise sum and difference, of the operands' shape, and
\* sub_matrices(add_matrices(A, B), B) is A.
C4_AddSub ==
    /\ (pc = "applied" /\ choice \in {"1", "2"} /\ shape(A) = shape(B)) =>
          /\ res # NoneVal /\ shape(res) = shape(A)
          /\ Len(res.data) = A.rows
          /\ \A i \in 1..A.rows :
                /\ Len(res.data[i]) = A.cols
                /\ \A j \in 1..A.cols :
                      IF choice = "1"
                      THEN IsSum(res.data[i][j], A.data[i][j], B.data[i][j])
                      ELSE IsDiff(res.data[i][j], A.data[i][j], B.data[i][j])
    /\ (pc = "undone" /\ choice = "1") => res = A

C4_Witness ==
    /\ pc = "undone" /\ choice = "1"
    /\ A = DemoA /\ B = DemoB /\ res = DemoA

-----------------------------------------------------------------------------
(* Claims on the interactive program (under Spec) *)

\* the places of main() where an operand is being entered
EntryPcs == {"choose", "im_dims", "im_mode", "im_paste", "im_row"}

Says(printed, what) == \E k \in 1..Len(printed) : printed[k] = what

\* C6: in the loop of main() no error ends the session: an error of an
\* operation (shape mismatch, inner-dimension mismatch, non-square or singular
\* inversion, unparsable dimension) brings the loop back to the menu with the
\* error reported, an operation goes on to save_matrix only with a result, a
\* failed load or save is reported and the session goes on, and the session
\* ends only from the menu on the choice "q".
C6_ErrorsCaught ==
    [][ /\ pc' # "crashed"
        /\ (pc' = "done" /\ pc # "done") => (pc = "menu" /\ choice' = "q")
        /\ (pc \in EntryPcs /\ pc' = "menu") =>
              (Says(report', "Operation failed:") \/ Says(report', "Error:"))
        /\ (pc \in EntryPcs /\ pc' = "save") =>
              /\ res' # NoneVal
              /\ choice \in {"1", "2"} => shape(A') = shape(B')
              /\ choice = "3" => A'.cols = B'.rows
              /\ choice = "4" => (IsSquare(A') /\ ~IsSingular(A'))
        /\ Says(report', "Failed to load file:") => pc' = "im_dims"
        /\ Says(report', "Failed to save:") => pc' = "viz"
      ]_vars

C6_Witness ==
    /\ pc = "menu" /\ choice = "3"
    /\ report = <<"Operation failed:", MsgInner>>

\* a matrix with at least one row and one column, every row of cols elements
WellFormed(M) ==
    /\ M.rows >= 1 /\ M.cols >= 1
    /\ Len(M.data) = M.rows
    /\ \A i \in 1..M.rows : Len(M.data[i]) = M.cols

\* C9: every matrix choose_matrix yields to the operations has a positive
\* number of rows, a positive number of columns and rows of cols elements.
C9_WellFormedOperands ==
    /\ A # NoneVal => WellFormed(A)
    /\ B # NoneVal => WellFormed(B)

-----------------------------------------------------------------------------
(* Claims on files (under SpecFile) *)

NoSuchFile == <<"Failed to load file:", "No such file or directory",
                "Falling back to interactive input.">>

\* C7: a matrix with rows >= 1 and cols >= 1 that was saved and is loaded
\* again comes back with the same rows, the same cols and the same values to
\* the digits the format writes.
C7_RoundTrip ==
    (pc \in {"floaded", "im_dims"} /\ res # NoneVal /\ fs[GoodPath].exists
        /\ report # NoSuchFile) =>
        /\ pc = "floaded"
        /\ A.rows = res.rows /\ A.cols = res.cols
        /\ \A i \in 1..res.rows : \A j \in 1..res.cols :
              A.data[i][j] = Fmt8g(res.data[i][j])

\* the numerals of a text in reading order
RECURSIVE Flatten(_)
Flatten(lines) == IF lines = <<>> THEN <<>> ELSE Head(lines) \o Flatten(Tail(lines))

\* the delimited text format: lines of numerals, as many on every line, the
\* values after either separator; the last line may be blank
InFormat(text) ==
    LET n == IF text # <<>> /\ text[Len(text)] = <<>> THEN Len(text) - 1 ELSE Len(text)
    IN  /\ n >= 1
        /\ \A i \in 1..n :
              /\ text[i] # <<>>
              /\ Len(text[i]) = Len(text[1])
              /\ \A k \in 1..Len(text[i]) : text[i][k].num

\* C8: a file in the delimited text format, the values of a row separated by
\* white space or by commas, is loaded into the matrix of its values, without
\* the fall back to interactive entry.
C8_EitherSeparator ==
    (pc \in {"floaded", "im_dims"} /\ res = NoneVal /\ report # NoSuchFile
        /\ InFormat(fs[GoodPath].text)) =>
        /\ pc = "floaded"
        /\ Flatten(A.data) = [k \in 1..Len(Flatten(fs[GoodPath].text)) |->
                                 Flatten(fs[GoodPath].text)[k].v]

-----------------------------------------------------------------------------
(* Claim on input_matrix() (under SpecInput) *)

\* the entries of M in row-major order
RowMajor(M) ==
    [k \in 1..(M.rows * M.cols) |-> M.data[((k - 1) \div M.cols) + 1][((k - 1) % M.cols) + 1]]

\* C10: with the dimensions rows x cols declared, a paste of rows*cols numeric
\* values is returned as the rows x cols matrix in row-major order, a paste of
\* another count stores nothing and starts row-by-row entry; there a line
\* whose count of numeric values is not cols is rejected and the same row is
\* asked again, a line of cols values fills row r+1 and only that row, and
\* the words of a line are not counted.
C10_PasteAndRows ==
    [][ /\ \A k \in 1..Len(nums') : \E v \in 1..MaxVal : nums'[k] = Q(v)
        /\ pc = "im_paste" =>
              IF Len(nums') = rows * cols
              THEN /\ pc' = "choose"
                   /\ A'.rows = rows /\ A'.cols = cols
                   /\ RowMajor(A') = nums'
              ELSE /\ pc' = "im_row" /\ r' = 0
                   /\ A' = A
                   /\ mat' = Mat(rows, cols, [i \in 1..rows |-> [j \in 1..cols |-> Q(0)]])
        /\ pc = "im_row" =>
              IF Len(nums') # cols
              THEN pc' = "im_row" /\ r' = r /\ mat' = mat /\ A' = A
              ELSE IF r + 1 < rows
              THEN /\ pc' = "im_row" /\ r' = r + 1 /\ A' = A
                   /\ mat'.data[r + 1] = nums'
                   /\ \A i \in 1..rows : i # r + 1 => mat'.data[i] = mat.data[i]
              ELSE /\ pc' = "choose"
                   /\ A'.rows = rows /\ A'.cols = cols
                   /\ A'.data[rows] = nums'
                   /\ \A i \in 1..(rows - 1) : A'.data[i] = mat.data[i]
      ]_vars

C10_Witness ==
    /\ pc = "im_row" /\ rows = 2 /\ cols = 2 /\ r = 1
    /\ mat.data = << <<Q(1), Q(2)>>, <<Q(0), Q(0)>> >>
    /\ nums = <<Q(2)>>
    /\ report = <<"Expected numbers. Try again.">>

====
